---- MODULE Spec2Model ----
(***************************************************************************)
(* pi-frame: a video wall of RTSP sources behind a compositor.  The model  *)
(* covers the bus watch of main(), restart_source / restart_inner, the     *)
(* GLib idle queue they post to, and the part of the GStreamer graph they  *)
(* touch (the source bins, their membership of the pipeline and the link   *)
(* of their src pad to the per-cell overlay that feeds a compositor slot). *)
(***************************************************************************)
EXTENDS Integers, Sequences, FiniteSets, TLC

\* ---------------------------------------------------------------- bounds
NumSources == 2      \* configured sources (config.sources), all of kind Rtsp
MaxMessages == 2     \* messages the streaming threads post during a run
DisplayW == 5        \* framebuffer xres (the largest one considered)
DisplayH == 3        \* framebuffer yres (the largest one considered)
LayoutH == 3         \* display.layout.horizontal (the largest one considered)
LayoutV == 2         \* display.layout.vertical (the largest one considered)

\* ------------------------------------------------------------- constants
RTSP_PREFIX == "rtsp_"
WATCHDOG_SUFFIX == "_watchdog"
DECODER_SUFFIX == "_decoder"

NoPeer == -1         \* Pad::peer() == None
NoBin == <<>>        \* no bin handle held
NoName == <<>>       \* no source name held

\* Names are sequences of tokens: "src_0" is <<"src_", "0">>, and
\* "rtsp_src_0_watchdog" is <<"rtsp_", "src_", "0", "_watchdog">>.
SourceName(index) == <<"src_", ToString(index)>>
SourceIndexes == 0..(NumSources - 1)
SourceNames == {SourceName(i) : i \in SourceIndexes}
IndexOf(name) == CHOOSE i \in SourceIndexes : SourceName(i) = name

starts_with(name, prefix) == Len(name) >= 1 /\ name[1] = prefix
strip_prefix(name) == Tail(name)
strip_suffix(name, suffix) ==
    IF Len(name) >= 1 /\ name[Len(name)] = suffix
    THEN SubSeq(name, 1, Len(name) - 1)
    ELSE name

\* The element names stream_rtsp gives to the parts of one source bin.
ElementKinds == {"rtspsrc", "watchdog", "decoder"}
RtspElementName(binName, elem) ==
    CASE elem = "rtspsrc"  -> <<RTSP_PREFIX>> \o binName
      [] elem = "watchdog" -> <<RTSP_PREFIX>> \o binName \o <<WATCHDOG_SUFFIX>>
      [] elem = "decoder"  -> <<RTSP_PREFIX>> \o binName \o <<DECODER_SUFFIX>>

\* The threads that dispatch the default main context.
MainThread == "main"
PoolThread == "pool"
AllThreads == {MainThread, PoolThread}

VARIABLES
    display,    \* framebuffer size and config.display.layout
    pads,       \* make_compositor's Vec<CompositorPad>, pad n at pads[n + 1]
    threads,    \* threads that run the callbacks of the main context
    panic,      \* "none", or the expect()/unwrap() that took the process down
    watching,   \* the bus watch is installed (its last return was Continue)
    sources,    \* HashMap<String, InstantiatedSource> captured by the watch
    guard,      \* key set of RESTART_LOCK's HashMap<String, bool>
    bus,        \* messages posted to the pipeline bus, not yet dispatched
    idle,       \* closures queued with glib::idle_add, not yet run
    bins,       \* the source bins that exist, by handle <<name, k>>
    frame,      \* per thread: the callback it is running and its locals
    posted,     \* number of messages posted so far
    delivered,  \* per source: Error/Timeout events that called restart_source
    bodyRuns,   \* per source: calls of restart_inner
    rechecks,   \* per source: deferred restart_source(.., Reentrant) calls run
    errors,     \* per source: the Err results restart_inner has returned
    overlap,    \* per source: an event was posted while a restart was running
    observed    \* types of the messages the watch handled in its logging arms

vars == <<display, pads, threads, panic, watching, sources, guard, bus, idle,
          bins, frame, posted, delivered, bodyRuns, rechecks, errors, overlap,
          observed>>

wall == <<display, pads>>
hist == <<delivered, bodyRuns, rechecks, errors, overlap, observed>>

\* ------------------------------------------------------------ the graph
CellW == display.width \div display.horizontal
CellH == display.height \div display.vertical

\* main(): the InstantiatedSource of each configured source.
InstantiatedSource(index) ==
    [name |-> SourceName(index), index |-> index, width |-> CellW, height |-> CellH]

\* A bin built by stream_rtsp: Bin::with_name(source.name), not yet in the
\* pipeline, src ghost pad not linked, state Null.  `by` is the caller of
\* create_source that built it.
NewBin(source) ==
    [name |-> source.name, width |-> source.width, height |-> source.height,
     inPipeline |-> FALSE, peer |-> NoPeer, state |-> "Null",
     by |-> "restart_inner"]

Handles == DOMAIN bins

\* The handle of the next bin built for a name: the first one not in use.
NewHandle(name) ==
    LET used == {h[2] : h \in {x \in Handles : x[1] = name}} IN
    <<name, CHOOSE k \in 1..(Cardinality(used) + 1) :
                k \notin used /\ \A j \in 1..(k - 1) : j \in used>>

\* A bin lives while the pipeline, a running restart_inner or a queued
\* closure holds a reference to it; the last reference dropped frees it.
Referenced(bs, fr, q) ==
    {h \in DOMAIN bs : bs[h].inPipeline}
    \cup {fr[c].bin : c \in DOMAIN fr} \cup {fr[c].element : c \in DOMAIN fr}
    \cup {q[k].bin : k \in 1..Len(q)}
DropUnreferenced(bs, fr, q) ==
    [h \in DOMAIN bs \cap Referenced(bs, fr, q) |-> bs[h]]

\* Pipeline::by_name(name): the bins of that name that are in the pipeline.
by_name(name) == {b \in Handles : bins[b].inPipeline /\ bins[b].name = name}

\* The bins whose src pad is linked to the overlay of compositor slot s.
LinkedTo(s) == {b \in Handles : bins[b].peer = s}

\* A thread that runs no callback.  Of restart_source's locals the frame
\* keeps the source name, restart_inner's bin, peer and element and its
\* result; `reason` is read by the guard check alone and not kept.
IdleFrame ==
    [pc |-> "idle", name |-> NoName, bin |-> NoBin,
     peer |-> NoPeer, element |-> NoBin, err |-> "none"]

InRestart(c) == frame[c].pc # "idle"
Running == panic = "none"

\* ----------------------------------------------------------------- Init
\* make_compositor placing cell n at its column and row times the cell size.
CompositorPadCellMultiple(n, width, height, layout) ==
    [x |-> (n % layout.horizontal) * (width \div layout.horizontal),
     y |-> (n \div layout.horizontal) * (height \div layout.vertical),
     width |-> width \div layout.horizontal,
     height |-> height \div layout.vertical]

\* make_compositor taking the row of cell n for its column.
CompositorPadRowAsColumn(n, width, height, layout) ==
    [x |-> ((n \div layout.horizontal) * width) \div layout.horizontal,
     y |-> ((n \div layout.horizontal) * height) \div layout.vertical,
     width |-> width \div layout.horizontal,
     height |-> height \div layout.vertical]

\* make_compositor's pad n: position and size of cell n, in usize
\* arithmetic (the product is formed before the division).
CompositorPad(n, width, height, layout) ==
    [x |-> ((n % layout.horizontal) * width) \div layout.horizontal,
     y |-> ((n \div layout.horizontal) * height) \div layout.vertical,
     width |-> width \div layout.horizontal,
     height |-> height \div layout.vertical]

Layout(d) == [horizontal |-> d.horizontal, vertical |-> d.vertical]
Cells(d) == d.horizontal * d.vertical

\* The display the restarts are studied on.
Framebuffer ==
    [width |-> DisplayW, height |-> DisplayH,
     horizontal |-> LayoutH, vertical |-> LayoutV]

\* The state main() has built when it calls main_loop.run().
InitCommon ==
    /\ display = Framebuffer
    /\ pads = [k \in 1..Cells(display) |->
                 CompositorPad(k - 1, display.width, display.height, Layout(display))]
    /\ panic = "none"
    /\ watching = TRUE
    /\ sources = [n \in SourceNames |-> InstantiatedSource(IndexOf(n))]
    /\ guard = {}
    /\ bus = <<>>
    /\ idle = <<>>
    /\ bins = [h \in {<<n, 1>> : n \in SourceNames} |->
                 [NewBin(sources[h[1]]) EXCEPT
                    !.inPipeline = TRUE, !.peer = IndexOf(h[1]),
                    !.state = "Playing", !.by = "main"]]
    /\ frame = [c \in AllThreads |-> IdleFrame]
    /\ posted = 0
    /\ delivered = [n \in SourceNames |-> 0]
    /\ bodyRuns = [n \in SourceNames |-> 0]
    /\ rechecks = [n \in SourceNames |-> 0]
    /\ errors = [n \in SourceNames |-> {}]
    /\ overlap = [n \in SourceNames |-> FALSE]
    /\ observed = {}

\* main(): main_loop.run() on the main thread is the only dispatcher.
Init == threads = {MainThread} /\ InitCommon

\* The callbacks dispatched by a small pool of runtime threads.
InitPool == threads = AllThreads /\ InitCommon

\* ------------------------------------------------------------- start-up
\* main() before main_loop.run(), for the display sizes and layouts up to
\* the bounds: nothing is built yet.
Displays ==
    [width : 1..DisplayW, height : 1..DisplayH,
     horizontal : 1..LayoutH, vertical : 1..LayoutV]

InitStartup ==
    /\ display \in Displays
    /\ pads = <<>>
    /\ threads = {MainThread}
    /\ panic = "none"
    /\ watching = FALSE
    /\ sources = <<>>
    /\ guard = {}
    /\ bus = <<>>
    /\ idle = <<>>
    /\ bins = <<>>
    /\ frame = [c \in AllThreads |-> IdleFrame]
    /\ posted = 0
    /\ delivered = [n \in SourceNames |-> 0]
    /\ bodyRuns = [n \in SourceNames |-> 0]
    /\ rechecks = [n \in SourceNames |-> 0]
    /\ errors = [n \in SourceNames |-> {}]
    /\ overlap = [n \in SourceNames |-> FALSE]
    /\ observed = {}

\* make_compositor: one turn of `for n in 0..horizontal * vertical`.
PushPad ==
    /\ Running /\ ~watching
    /\ Len(pads) < Cells(display)
    /\ pads' = Append(pads, CompositorPad(Len(pads), display.width, display.height,
                                          Layout(display)))
    /\ UNCHANGED <<display, threads, panic, watching, sources, guard, bus, idle,
                   bins, frame, posted, hist>>

\* main(): one turn of the loop over config.sources.  The source is
\* instantiated with the size of a cell, its bin added to the pipeline and
\* linked to its overlay, and the overlay linked to compositor pad
\* sink_{index}, which .expect()s the pad to exist.
InstantiateSource ==
    /\ Running /\ ~watching
    /\ Len(pads) = Cells(display)
    /\ LET index == Cardinality(DOMAIN sources)
           name == SourceName(index) IN
       /\ index < NumSources
       /\ sources' = [n \in DOMAIN sources \cup {name} |->
                        IF n = name THEN InstantiatedSource(index) ELSE sources[n]]
       /\ bins' = [h \in Handles \cup {<<name, 1>>} |->
                     IF h = <<name, 1>>
                     THEN [NewBin(InstantiatedSource(index)) EXCEPT
                             !.inPipeline = TRUE, !.peer = index, !.by = "main"]
                     ELSE bins[h]]
       /\ panic' = IF index < Len(pads) THEN panic ELSE "no pad sink_{index}"
    /\ UNCHANGED <<wall, threads, watching, guard, bus, idle, frame, posted, hist>>

\* main(): the pads get their position and size, the bus watch is added and
\* the pipeline is set to Playing.
Play ==
    /\ Running /\ ~watching
    /\ Cardinality(DOMAIN sources) = NumSources
    /\ watching' = TRUE
    /\ bins' = [h \in Handles |-> [bins[h] EXCEPT !.state = "Playing"]]
    /\ UNCHANGED <<wall, threads, panic, sources, guard, bus, idle, frame, posted, hist>>

NextStartup == PushPad \/ InstantiateSource \/ Play

\* main() from the configuration to main_loop.run().
SpecStartup == InitStartup /\ [][NextStartup]_vars

\* ------------------------------------------------------------- messages
\* A message carries its type, the name of the element that posted it and
\* its structure name.  A source bin posts errors from its rtspsrc, watchdog
\* and decoder, and the rtspsrc timeout; the rest comes from the mixer and
\* the pipeline.
BinMessages(b) ==
    {[type |-> "Error", src |-> RtspElementName(bins[b].name, e),
      structure |-> "GstMessageError"] : e \in ElementKinds}
    \cup {[type |-> "Element", src |-> RtspElementName(bins[b].name, "rtspsrc"),
           structure |-> "GstRTSPSrcTimeout"]}

GraphMessages ==
    {[type |-> "Error", src |-> <<"mixer">>, structure |-> "GstMessageError"],
     [type |-> "Element", src |-> <<"mixer">>, structure |-> "OtherTimeout"]}
    \cup {[type |-> t, src |-> <<"pi-frame">>, structure |-> "none"] :
            t \in {"StateChanged", "Eos", "Progress", "StreamStatus"}}

\* The message types whose arms of the bus watch only log.
LoggedTypes == {"StateChanged", "Eos", "Progress", "StreamStatus"}

\* The messages that make the bus watch call restart_source for a name.
RestartMessages(name) ==
    {[type |-> "Error", src |-> RtspElementName(name, e),
      structure |-> "GstMessageError"] : e \in {"rtspsrc", "watchdog"}}
    \cup {[type |-> "Element", src |-> RtspElementName(name, "rtspsrc"),
           structure |-> "GstRTSPSrcTimeout"]}

\* A restart of the named source is between its guard insert and its remove.
RestartRunning(name) == \E c \in AllThreads : InRestart(c) /\ frame[c].name = name

\* A streaming thread posts a message.  A bin posts to the pipeline bus only
\* while it is a playing child of the pipeline.
PostMessage ==
    /\ Running
    /\ posted < MaxMessages
    /\ \E m \in GraphMessages \cup UNION {BinMessages(b) : b \in
                    {h \in Handles : bins[h].inPipeline /\ bins[h].state = "Playing"}} :
          /\ bus' = Append(bus, m)
          /\ overlap' = [n \in SourceNames |->
                            overlap[n] \/ (m \in RestartMessages(n) /\ RestartRunning(n))]
    /\ posted' = posted + 1
    /\ UNCHANGED <<wall, threads, panic, watching, sources, guard, idle, bins, frame,
                   delivered, bodyRuns, rechecks, errors, observed>>

\* ------------------------------------------------------- restart_source
\* restart_source without the look-up of the entry: every call restarts.
RestartSourceEnterUnguarded(c, name, reason, q) ==
    /\ guard' = guard \cup {name}
    /\ frame' = [frame EXCEPT ![c] = [IdleFrame EXCEPT !.pc = "by_name", !.name = name]]
    /\ bodyRuns' = [bodyRuns EXCEPT ![name] = @ + 1]
    /\ idle' = q

\* restart_source going on to restart_inner without inserting the entry.
RestartSourceEnterWithoutInsert(c, name, reason, q) ==
    IF name \in guard
    THEN /\ idle' = IF reason # "Reentrant"
                    THEN Append(q, [kind |-> "restart_source", name |-> name, bin |-> NoBin])
                    ELSE q
         /\ frame' = [frame EXCEPT ![c] = IdleFrame]
         /\ UNCHANGED <<guard, bodyRuns>>
    ELSE /\ guard' = guard
         /\ frame' = [frame EXCEPT ![c] =
                        [IdleFrame EXCEPT !.pc = "by_name", !.name = name]]
         /\ bodyRuns' = [bodyRuns EXCEPT ![name] = @ + 1]
         /\ idle' = q

\* restart_source queueing a deferred call also when it goes on to
\* restart_inner itself.
RestartSourceEnterRestartsAndDefers(c, name, reason, q) ==
    IF name \in guard
    THEN /\ idle' = IF reason # "Reentrant"
                    THEN Append(q, [kind |-> "restart_source", name |-> name, bin |-> NoBin])
                    ELSE q
         /\ frame' = [frame EXCEPT ![c] = IdleFrame]
         /\ UNCHANGED <<guard, bodyRuns>>
    ELSE /\ guard' = guard \cup {name}
         /\ frame' = [frame EXCEPT ![c] =
                        [IdleFrame EXCEPT !.pc = "by_name", !.name = name]]
         /\ bodyRuns' = [bodyRuns EXCEPT ![name] = @ + 1]
         /\ idle' = IF reason # "Reentrant"
                    THEN Append(q, [kind |-> "restart_source", name |-> name, bin |-> NoBin])
                    ELSE q

\* restart_source queueing a deferred call whatever the reason of the call.
RestartSourceEnterAlwaysDefers(c, name, reason, q) ==
    IF name \in guard
    THEN /\ idle' = Append(q, [kind |-> "restart_source", name |-> name, bin |-> NoBin])
         /\ frame' = [frame EXCEPT ![c] = IdleFrame]
         /\ UNCHANGED <<guard, bodyRuns>>
    ELSE /\ guard' = guard \cup {name}
         /\ frame' = [frame EXCEPT ![c] =
                        [IdleFrame EXCEPT !.pc = "by_name", !.name = name]]
         /\ bodyRuns' = [bodyRuns EXCEPT ![name] = @ + 1]
         /\ idle' = q

\* restart_source up to the call of restart_inner, one critical section of
\* RESTART_LOCK: an entry for the name ends the call (after queueing one
\* deferred call, unless this call is the deferred one); otherwise the entry
\* is inserted and the call goes on to restart_inner.  q is the idle queue
\* as the caller leaves it.
RestartSourceEnter(c, name, reason, q) ==
    IF name \in guard
    THEN /\ idle' = IF reason # "Reentrant"
                    THEN Append(q, [kind |-> "restart_source", name |-> name, bin |-> NoBin])
                    ELSE q
         /\ frame' = [frame EXCEPT ![c] = IdleFrame]
         /\ UNCHANGED <<guard, bodyRuns>>
    ELSE /\ guard' = guard \cup {name}
         /\ frame' = [frame EXCEPT ![c] =
                        [IdleFrame EXCEPT !.pc = "by_name", !.name = name]]
         /\ bodyRuns' = [bodyRuns EXCEPT ![name] = @ + 1]
         /\ idle' = q

\* An expect()/unwrap() panics inside a callback of the main loop: the
\* process goes down where it stands.
Panic(why) ==
    /\ panic' = why
    /\ UNCHANGED <<guard, idle, frame, bodyRuns>>

\* A logging arm that queues a deferred restart of the first source.
NoRestartDefers ==
    /\ idle' = Append(idle, [kind |-> "restart_source", name |-> SourceName(0),
                             bin |-> NoBin])
    /\ UNCHANGED <<panic, guard, frame, bodyRuns>>

\* The callback returns without calling restart_source.
NoRestart == UNCHANGED <<panic, guard, idle, frame, bodyRuns>>

\* The Error arm of the bus watch.
OnError(c, m) ==
    LET source_name == m.src IN
    IF m.structure = "GstMessageError" /\ starts_with(source_name, RTSP_PREFIX)
    THEN LET name == strip_suffix(strip_prefix(source_name), WATCHDOG_SUFFIX) IN
         IF name \in DOMAIN sources
         THEN /\ RestartSourceEnter(c, sources[name].name, "Error", idle)
              /\ delivered' = [delivered EXCEPT ![name] = @ + 1]
              /\ UNCHANGED panic
         ELSE Panic("sources.get(name).unwrap()") /\ UNCHANGED delivered
    ELSE NoRestart /\ UNCHANGED delivered

\* The Element arm of the bus watch.
OnElement(c, m) ==
    LET name == m.src IN
    IF m.structure = "GstRTSPSrcTimeout"
    THEN IF ~starts_with(name, RTSP_PREFIX)
         THEN Panic("strip_prefix(RTSP_PREFIX).unwrap()") /\ UNCHANGED delivered
         ELSE IF strip_prefix(name) \in DOMAIN sources
              THEN /\ RestartSourceEnter(c, sources[strip_prefix(name)].name, "Timeout", idle)
                   /\ delivered' = [delivered EXCEPT ![strip_prefix(name)] = @ + 1]
                   /\ UNCHANGED panic
              ELSE Panic("sources.get(name).unwrap()") /\ UNCHANGED delivered
    ELSE NoRestart /\ UNCHANGED delivered

\* The bus watch: a free dispatching thread takes the oldest message and
\* runs the closure on it; the closure returns ControlFlow::Continue.
BusWatch(c) ==
    /\ Running /\ watching
    /\ c \in threads
    /\ frame[c].pc = "idle"
    /\ bus # <<>>
    /\ bus' = Tail(bus)
    /\ LET m == Head(bus) IN
       CASE m.type = "Error" -> OnError(c, m)
         [] m.type = "Element" -> OnElement(c, m)
         [] OTHER -> NoRestart /\ UNCHANGED delivered
    /\ observed' = IF Head(bus).type \in LoggedTypes
                    THEN observed \cup {Head(bus).type}
                    ELSE observed
    /\ watching' = TRUE
    /\ UNCHANGED <<wall, threads, sources, bins, posted, rechecks, errors, overlap>>

\* An idle source runs: idle sources have a lower priority than the bus
\* watch, so they run when no message waits, in the order they were added.
\* Both closures return ControlFlow::Break.
IdleDispatch(c) ==
    /\ Running
    /\ c \in threads
    /\ frame[c].pc = "idle"
    /\ idle # <<>>
    /\ bus = <<>>
    /\ LET closure == Head(idle) IN
       IF closure.kind = "set_state_null"
       THEN \* bin.set_state(Null): the outcome is only logged
            /\ \E ok \in BOOLEAN :
                  bins' = DropUnreferenced(
                             IF ok THEN [bins EXCEPT ![closure.bin].state = "Null"] ELSE bins,
                             frame, Tail(idle))
            /\ idle' = Tail(idle)
            /\ UNCHANGED <<guard, frame, bodyRuns, rechecks>>
       ELSE /\ RestartSourceEnter(c, closure.name, "Reentrant", Tail(idle))
            /\ rechecks' = [rechecks EXCEPT ![closure.name] = @ + 1]
            /\ UNCHANGED bins
    /\ UNCHANGED <<wall, threads, panic, watching, sources, bus, posted, delivered,
                   errors, overlap, observed>>

\* -------------------------------------------------------- restart_inner
\* A step of restart_inner returned Err(e) through `?`: back in
\* restart_source, which logs it and goes on to drop the guard entry.
Fail(c, e) == frame' = [frame EXCEPT ![c].pc = "release", ![c].err = e]

Goto(c, pc) == frame' = [frame EXCEPT ![c].pc = pc]

\* pipeline.by_name(name).expect("no bin"), bin.static_pad("src"),
\* pad.peer().expect("no peer").
InnerLookup(c) ==
    /\ Running /\ c \in threads
    /\ frame[c].pc = "by_name"
    /\ IF by_name(frame[c].name) = {}
       THEN panic' = "no bin" /\ frame' = [frame EXCEPT ![c].err = "no bin"]
       ELSE \E b \in by_name(frame[c].name) :
               IF bins[b].peer = NoPeer
               THEN /\ panic' = "no peer"
                    /\ frame' = [frame EXCEPT ![c].bin = b, ![c].err = "no peer"]
               ELSE /\ frame' = [frame EXCEPT ![c].pc = "unlink", ![c].bin = b,
                                              ![c].peer = bins[b].peer]
                    /\ UNCHANGED panic
    /\ UNCHANGED <<wall, threads, watching, sources, guard, bus, idle, bins, posted, hist>>

\* restart_inner without the unlink of the old bin's src pad.
InnerUnlinkSkipped(c) ==
    /\ Running /\ c \in threads
    /\ frame[c].pc = "unlink"
    /\ Goto(c, "remove")
    /\ UNCHANGED <<wall, threads, panic, watching, sources, guard, bus, idle, bins, posted, hist>>

\* pad.unlink(&peer)?  The unlink is refused when the pad is not linked to
\* that peer.
InnerUnlink(c) ==
    /\ Running /\ c \in threads
    /\ frame[c].pc = "unlink"
    /\ IF bins[frame[c].bin].peer = frame[c].peer
       THEN /\ bins' = [bins EXCEPT ![frame[c].bin].peer = NoPeer]
            /\ Goto(c, "remove")
       ELSE Fail(c, "unlink") /\ UNCHANGED bins
    /\ UNCHANGED <<wall, threads, panic, watching, sources, guard, bus, idle, posted, hist>>

\* pipeline.remove(&bin)?  The removal is refused when the bin is not a
\* child of the pipeline.
InnerRemove(c) ==
    /\ Running /\ c \in threads
    /\ frame[c].pc = "remove"
    /\ IF bins[frame[c].bin].inPipeline
       THEN /\ bins' = [bins EXCEPT ![frame[c].bin].inPipeline = FALSE]
            /\ Goto(c, "idle_add")
       ELSE Fail(c, "remove") /\ UNCHANGED bins
    /\ UNCHANGED <<wall, threads, panic, watching, sources, guard, bus, idle, posted, hist>>

\* restart_inner calling bin.set_state(Null) itself, inside the callback.
InnerStopsInline(c) ==
    /\ Running /\ c \in threads
    /\ frame[c].pc = "idle_add"
    /\ \E ok \in BOOLEAN :
          bins' = IF ok THEN [bins EXCEPT ![frame[c].bin].state = "Null"] ELSE bins
    /\ Goto(c, "create")
    /\ UNCHANGED <<wall, threads, panic, watching, sources, guard, bus, idle, posted, hist>>

\* glib::idle_add(move || bin.set_state(Null) ...)
InnerDeferNull(c) ==
    /\ Running /\ c \in threads
    /\ frame[c].pc = "idle_add"
    /\ idle' = Append(idle, [kind |-> "set_state_null", name |-> frame[c].name,
                             bin |-> frame[c].bin])
    /\ Goto(c, "create")
    /\ UNCHANGED <<wall, threads, panic, watching, sources, guard, bus, bins, posted, hist>>

\* restart_inner writing a new target width into the entry of the source
\* and building the bin with it.
InnerCreateResizes(c) ==
    /\ Running /\ c \in threads
    /\ frame[c].pc = "create"
    /\ sources' = [sources EXCEPT ![frame[c].name].width = @ + 1]
    /\ \E ok \in BOOLEAN :
          IF ok
          THEN LET element == NewHandle(sources[frame[c].name].name) IN
               /\ bins' = [h \in Handles \cup {element} |->
                             IF h = element THEN NewBin(sources'[frame[c].name])
                                            ELSE bins[h]]
               /\ frame' = [frame EXCEPT ![c].pc = "add", ![c].element = element]
          ELSE Fail(c, "create") /\ UNCHANGED bins
    /\ UNCHANGED <<wall, threads, panic, watching, guard, bus, idle, posted, hist>>

\* create_source(source)?  (stream_rtsp with the entry's name, width and
\* height; parse::launch can fail)
InnerCreate(c) ==
    /\ Running /\ c \in threads
    /\ frame[c].pc = "create"
    /\ \E ok \in BOOLEAN :
          IF ok
          THEN LET element == NewHandle(sources[frame[c].name].name) IN
               /\ bins' = [h \in Handles \cup {element} |->
                             IF h = element THEN NewBin(sources[frame[c].name])
                                            ELSE bins[h]]
               /\ frame' = [frame EXCEPT ![c].pc = "add", ![c].element = element]
          ELSE Fail(c, "create") /\ UNCHANGED bins
    /\ UNCHANGED <<wall, threads, panic, watching, sources, guard, bus, idle, posted, hist>>

\* pipeline.add(&element)?  The pipeline refuses a child whose name one of
\* its children already has.
InnerAdd(c) ==
    /\ Running /\ c \in threads
    /\ frame[c].pc = "add"
    /\ IF by_name(bins[frame[c].element].name) = {}
       THEN /\ bins' = [bins EXCEPT ![frame[c].element].inPipeline = TRUE]
            /\ Goto(c, "link")
       ELSE Fail(c, "add") /\ UNCHANGED bins
    /\ UNCHANGED <<wall, threads, panic, watching, sources, guard, bus, idle, posted, hist>>

\* restart_inner linking the new bin to the overlay of the next slot.
InnerLinkNextSlot(c) ==
    /\ Running /\ c \in threads
    /\ frame[c].pc = "link"
    /\ \E ok \in BOOLEAN :
          IF ok
          THEN /\ bins' = [bins EXCEPT ![frame[c].element].peer =
                                          (frame[c].peer + 1) % NumSources]
               /\ Goto(c, "sync")
          ELSE Fail(c, "link") /\ UNCHANGED bins
    /\ UNCHANGED <<wall, threads, panic, watching, sources, guard, bus, idle, posted, hist>>

\* element.link(&peer_parent)?  peer_parent is the overlay the old bin fed;
\* its one sink pad takes a link only while it has none, and the runtime
\* can refuse the link (pad negotiation).
InnerLink(c) ==
    /\ Running /\ c \in threads
    /\ frame[c].pc = "link"
    /\ \E ok \in BOOLEAN :
          IF ok /\ LinkedTo(frame[c].peer) = {}
          THEN /\ bins' = [bins EXCEPT ![frame[c].element].peer = frame[c].peer]
               /\ Goto(c, "sync")
          ELSE Fail(c, "link") /\ UNCHANGED bins
    /\ UNCHANGED <<wall, threads, panic, watching, sources, guard, bus, idle, posted, hist>>

\* restart_inner without sync_state_with_parent: the new bin stays Null.
InnerSyncSkipped(c) ==
    /\ Running /\ c \in threads
    /\ frame[c].pc = "sync"
    /\ Goto(c, "release")
    /\ UNCHANGED <<wall, threads, panic, watching, sources, guard, bus, idle, bins, posted, hist>>

\* element.sync_state_with_parent()? (the state change can fail), then Ok(())
InnerSync(c) ==
    /\ Running /\ c \in threads
    /\ frame[c].pc = "sync"
    /\ \E ok \in BOOLEAN :
          IF ok
          THEN /\ bins' = [bins EXCEPT ![frame[c].element].state = "Playing"]
               /\ Goto(c, "release")
          ELSE Fail(c, "sync") /\ UNCHANGED bins
    /\ UNCHANGED <<wall, threads, panic, watching, sources, guard, bus, idle, posted, hist>>

\* restart_source clearing the whole table instead of removing its entry.
RestartSourceReleaseClearsAll(c) ==
    /\ Running /\ c \in threads
    /\ frame[c].pc = "release"
    /\ guard' = {}
    /\ errors' = IF frame[c].err # "none"
                 THEN [errors EXCEPT ![frame[c].name] = @ \cup {frame[c].err}]
                 ELSE errors
    /\ frame' = [frame EXCEPT ![c] = IdleFrame]
    /\ bins' = DropUnreferenced(bins, frame', idle)
    /\ UNCHANGED <<wall, threads, panic, watching, sources, bus, idle, posted,
                   delivered, bodyRuns, rechecks, overlap, observed>>

\* restart_source returning early on Err, the entry left in the table.
RestartSourceReleaseOnOk(c) ==
    /\ Running /\ c \in threads
    /\ frame[c].pc = "release"
    /\ guard' = IF frame[c].err = "none" THEN guard \ {frame[c].name} ELSE guard
    /\ errors' = IF frame[c].err # "none"
                 THEN [errors EXCEPT ![frame[c].name] = @ \cup {frame[c].err}]
                 ELSE errors
    /\ frame' = [frame EXCEPT ![c] = IdleFrame]
    /\ bins' = DropUnreferenced(bins, frame', idle)
    /\ UNCHANGED <<wall, threads, panic, watching, sources, bus, idle, posted,
                   delivered, bodyRuns, rechecks, overlap, observed>>

\* restart_source after restart_inner: log an Err, lock, remove the entry.
RestartSourceRelease(c) ==
    /\ Running /\ c \in threads
    /\ frame[c].pc = "release"
    /\ guard' = guard \ {frame[c].name}
    /\ errors' = IF frame[c].err # "none"
                 THEN [errors EXCEPT ![frame[c].name] = @ \cup {frame[c].err}]
                 ELSE errors
    /\ frame' = [frame EXCEPT ![c] = IdleFrame]
    /\ bins' = DropUnreferenced(bins, frame', idle)
    /\ UNCHANGED <<wall, threads, panic, watching, sources, bus, idle, posted,
                   delivered, bodyRuns, rechecks, overlap, observed>>

\* ----------------------------------------------------------------- Next
Next ==
    \/ PostMessage
    \/ \E c \in AllThreads : BusWatch(c)
    \/ \E c \in AllThreads : IdleDispatch(c)
    \/ \E c \in AllThreads : InnerLookup(c)
    \/ \E c \in AllThreads : InnerUnlink(c)
    \/ \E c \in AllThreads : InnerRemove(c)
    \/ \E c \in AllThreads : InnerDeferNull(c)
    \/ \E c \in AllThreads : InnerCreate(c)
    \/ \E c \in AllThreads : InnerAdd(c)
    \/ \E c \in AllThreads : InnerLink(c)
    \/ \E c \in AllThreads : InnerSync(c)
    \/ \E c \in AllThreads : RestartSourceRelease(c)

\* The program: every callback runs on the main thread.
Spec == Init /\ [][Next]_vars

\* The same callbacks dispatched by a pool of two runtime threads.
SpecPool == InitPool /\ [][Next]_vars

\* A step of a call of restart_source that is past the guard check.
RestartStep(c) ==
    \/ InnerLookup(c) \/ InnerUnlink(c) \/ InnerRemove(c) \/ InnerDeferNull(c)
    \/ InnerCreate(c) \/ InnerAdd(c) \/ InnerLink(c) \/ InnerSync(c)
    \/ RestartSourceRelease(c)

\* main_loop.run() keeps iterating the main context: a callback that has
\* started runs on to its return, a message on the bus is dispatched to the
\* watch and a queued idle closure is run.
Fairness ==
    /\ \A c \in AllThreads : WF_vars(RestartStep(c))
    /\ WF_vars(\E c \in AllThreads : BusWatch(c))
    /\ WF_vars(\E c \in AllThreads : IdleDispatch(c))

\* The program with its main loop running.
SpecFair == Spec /\ Fairness

\* The bus watch handed one message of any type, origin and structure, on
\* the graph main() has built.
WatchInputs ==
    [type : {"Error", "Element"} \cup LoggedTypes,
     src : {RtspElementName(n, e) : n \in SourceNames, e \in ElementKinds}
           \cup {<<"mixer">>, <<"pi-frame">>},
     structure : {"GstMessageError", "GstRTSPSrcTimeout", "OtherTimeout", "none"}]

InitDispatch ==
    /\ display = Framebuffer
    /\ pads = [k \in 1..Cells(display) |->
                 CompositorPad(k - 1, display.width, display.height, Layout(display))]
    /\ threads = {MainThread}
    /\ panic = "none"
    /\ watching = TRUE
    /\ sources = [n \in SourceNames |-> InstantiatedSource(IndexOf(n))]
    /\ guard = {}
    /\ bus \in {<<m>> : m \in WatchInputs}
    /\ idle = <<>>
    /\ bins = [h \in {<<n, 1>> : n \in SourceNames} |->
                 [NewBin(sources[h[1]]) EXCEPT
                    !.inPipeline = TRUE, !.peer = IndexOf(h[1]),
                    !.state = "Playing", !.by = "main"]]
    /\ frame = [c \in AllThreads |-> IdleFrame]
    /\ posted = 1
    /\ delivered = [n \in SourceNames |-> 0]
    /\ bodyRuns = [n \in SourceNames |-> 0]
    /\ rechecks = [n \in SourceNames |-> 0]
    /\ errors = [n \in SourceNames |-> {}]
    /\ overlap = [n \in SourceNames |-> FALSE]
    /\ observed = {}

SpecDispatch == InitDispatch /\ [][Next]_vars

\* =============================================================== claims
\* Start-up on the display of the restarts ends in the state they start in.
StartupReachesInit == watching /\ display = Framebuffer => InitCommon

\* The calls of restart_source for a name that are past the guard check.
Restarting(name) == {c \in AllThreads : InRestart(c) /\ frame[c].name = name}

\* The closures queued on the idle scheduler of one kind.
Queued(kind) == {k \in 1..Len(idle) : idle[k].kind = kind}

\* The bins of a name whose src pad is linked.
LinkedBins(name) == {h \in Handles : bins[h].name = name /\ bins[h].peer # NoPeer}

\* The set_state(Null) of a bin waits on the idle scheduler.
DestroyQueued(b) == \E k \in Queued("set_state_null") : idle[k].bin = b

\* Nothing is left to run: no message, no closure, no callback.
Quiescent ==
    /\ bus = <<>> /\ idle = <<>>
    /\ \A c \in AllThreads : frame[c].pc = "idle"

\* C1: for every source at most one call of restart_source is between the
\* insert of the guard entry and its removal (so at most one runs
\* restart_inner), however the Error, Timeout and deferred calls interleave.
C1_OneRestartPerSource ==
    \A n \in SourceNames : Cardinality(Restarting(n)) <= 1

\* C1 witness: a restart of a source is running while a second event for
\* the same source has been turned away at the guard and queued its
\* deferred call.
C1_Witness ==
    \E n \in SourceNames :
        /\ Cardinality(Restarting(n)) = 1
        /\ delivered[n] >= 2 /\ bodyRuns[n] = 1
        /\ \E k \in Queued("restart_source") : idle[k].name = n

\* C2: a slot's overlay is linked to at most one source bin, and inside
\* restart_inner the old bin is unlinked, out of the pipeline and its
\* set_state(Null) queued before the new bin exists; the slot stays free
\* from the unlink until the new bin is linked.
C2_DetachBeforeAttach ==
    /\ \A s \in SourceIndexes : Cardinality(LinkedTo(s)) <= 1
    /\ \A c \in AllThreads :
          /\ frame[c].pc \in {"by_name", "unlink", "remove", "idle_add", "create"}
                => frame[c].element = NoBin
          /\ frame[c].pc \in {"create", "add", "link", "sync"}
                => /\ bins[frame[c].bin].peer = NoPeer
                   /\ ~bins[frame[c].bin].inPipeline
                   /\ DestroyQueued(frame[c].bin)
          /\ frame[c].pc \in {"remove", "idle_add", "create", "add", "link"}
                => LinkedTo(frame[c].peer) = {}

\* C2 witness: a restart has linked the new bin to the slot the old bin
\* was unlinked from.
C2_Witness ==
    \E c \in AllThreads :
        /\ frame[c].pc = "sync"
        /\ LinkedTo(frame[c].peer) = {frame[c].element}
        /\ frame[c].bin # frame[c].element

\* After create_source has failed the old bin is unlinked and out of the
\* pipeline, and no bin of the source is in the pipeline or linked.
C3_StateAfterCreateFails ==
    \A c \in AllThreads :
        frame[c].pc = "release" /\ frame[c].err = "create"
            => /\ LinkedBins(frame[c].name) = {}
               /\ by_name(frame[c].name) = {}
               /\ frame[c].element = NoBin
               /\ ~bins[frame[c].bin].inPipeline
\* The failing create_source and the return of restart_source after it
\* queue no closure and no message; the return removes the guard entry and
\* leaves the source without a bin.
C3_StepAfterCreateFails ==
    \A c \in AllThreads : \A n \in SourceNames :
        /\ frame[c].name = n /\ frame[c].pc = "create" /\ frame'[c].pc = "release"
              => idle' = idle /\ bus' = bus
        /\ frame[c].name = n /\ frame[c].pc = "release" /\ frame[c].err = "create"
           /\ frame'[c].pc = "idle"
              => /\ n \notin guard'
                 /\ idle' = idle /\ bus' = bus
                 /\ LinkedBins(n)' = {} /\ by_name(n)' = {}
\* C3: when create_source fails, restart_inner leaves the old bin unlinked
\* and removed and no bin of the source in the pipeline; restart_source then
\* removes the guard entry, and neither step queues a closure or a message.
C3_CreateFailureEndsRestart ==
    []C3_StateAfterCreateFails /\ [][C3_StepAfterCreateFails]_vars

\* C3 witness: a restart that failed in create_source has returned: the
\* guard entry is gone and the source has no bin in the pipeline.
C3_Witness ==
    \E n \in SourceNames :
        /\ errors[n] = {"create"}
        /\ Restarting(n) = {} /\ n \notin guard
        /\ by_name(n) = {}

\* C4: a detach failure (no peer, or unlink returning an error) ends the
\* restart attempt on the spot: the process runs on, the call is on its way
\* to the removal of the guard entry, the old bin is still in the pipeline
\* and no new bin was built.
C4_DetachFailureAborts ==
    \A c \in AllThreads :
        frame[c].err \in {"no peer", "unlink"}
            => /\ Running
               /\ frame[c].pc = "release"
               /\ frame[c].element = NoBin
               /\ bins[frame[c].bin].inPipeline

\* C5: no sequence of events and restart outcomes takes the process down.
C5_NeverPanics == panic = "none"

\* The bins of a source that are in the pipeline and feed its slot.
Attached(n) ==
    {h \in Handles : bins[h].name = n /\ bins[h].inPipeline
                     /\ bins[h].peer = sources[n].index}
\* Those of them that a restart built and set playing.
RebuiltAttached(n) ==
    {h \in Attached(n) : bins[h].by = "restart_inner" /\ bins[h].state = "Playing"}

\* Two events for the source were delivered, one of them posted while a
\* restart of the source was running, and all scheduled work has run.
TwoEventsOneWindow(n) == delivered[n] = 2 /\ overlap[n] /\ Quiescent

C7_DeferredCheckAfterRestart ==
    [][\A n \in SourceNames : rechecks'[n] # rechecks[n] => Restarting(n) = {}]_vars

\* With every callback on the main thread no call of restart_source finds
\* an entry in the table: no deferred call is queued or run.
NoDeferredCallOnMainThread ==
    threads = {MainThread}
        => Queued("restart_source") = {} /\ \A n \in SourceNames : rechecks[n] = 0

\* The deferred calls of a source that wait on the idle scheduler.
PendingRechecks(n) == {k \in Queued("restart_source") : idle[k].name = n}

\* A step that runs a deferred call takes it off the idle queue and adds
\* none.
C8_DeferredCallEnds ==
    \A n \in SourceNames :
        rechecks'[n] # rechecks[n]
            => Cardinality(Queued("restart_source"))'
                 = Cardinality(Queued("restart_source")) - 1
\* The deferred calls of a source, run or waiting, are fewer than the
\* events delivered for it.
C8_DeferredCallsBounded ==
    \A n \in SourceNames :
        \/ delivered[n] = 0 /\ rechecks[n] = 0 /\ PendingRechecks(n) = {}
        \/ rechecks[n] + Cardinality(PendingRechecks(n)) < delivered[n]
\* C8: a deferred call leaves the idle queue one deferred call shorter,
\* whatever guard state it finds, and the deferred calls of a source, run
\* or waiting, are fewer than the events delivered for it: no chain.
C8_NoDeferredChain == []C8_DeferredCallsBounded /\ [][C8_DeferredCallEnds]_vars

\* C8 witness: a deferred call has run while the restart that turned its
\* event away was still running, found the entry and ended; none waits.
C8_Witness ==
    \E n \in SourceNames :
        /\ rechecks[n] = 1 /\ bodyRuns[n] = 1
        /\ Restarting(n) # {}
        /\ Queued("restart_source") = {}

\* C9: a linked bin feeds the slot of its source's index, and a restart that
\* succeeded has linked the new bin, in the pipeline, to the peer the old
\* bin was unlinked from.
C9_SlotPreserved ==
    /\ \A h \in Handles :
          bins[h].peer # NoPeer => bins[h].peer = sources[bins[h].name].index
    /\ \A c \in AllThreads :
          frame[c].pc = "release" /\ frame[c].err = "none"
              => /\ bins[frame[c].element].peer = frame[c].peer
                 /\ bins[frame[c].element].inPipeline
                 /\ frame[c].peer = sources[frame[c].name].index
                 /\ bins[frame[c].bin].peer = NoPeer

\* C9 witness: a restart has succeeded and returned; the bin it built
\* feeds the slot.
C9_Witness ==
    \E n \in SourceNames :
        /\ bodyRuns[n] >= 1 /\ errors[n] = {} /\ Restarting(n) = {}
        /\ RebuiltAttached(n) # {}

\* The bins of a source.
BinsOf(n) == [h \in {x \in Handles : bins[x].name = n} |-> bins[h]]

\* C10: a step of a restart of source a leaves the guard entry, the bins and
\* links and the running restart of every other source b as they were.
C10_OtherSourcesUntouched ==
    [][\A c \in AllThreads : \A a, b \in SourceNames :
          /\ a # b /\ frame'[c] # frame[c]
          /\ frame[c].name = a \/ frame'[c].name = a
          /\ frame[c].name # b /\ frame'[c].name # b
          => /\ (b \in guard') = (b \in guard)
             /\ BinsOf(b)' = BinsOf(b)
             /\ \A d \in AllThreads \ {c} : frame'[d] = frame[d]]_vars

\* C10 witness: the restarts of two sources are both past the detach and
\* have both linked their new bins.
C10_Witness ==
    \E c, d \in AllThreads :
        /\ frame[c].pc = "sync" /\ frame[d].pc = "sync"
        /\ frame[c].name # frame[d].name

\* C11: a guard entry that was inserted is removed in the end, and it is
\* removed by the call that inserted it, after restart_inner has returned.
C11_GuardEventuallyCleared ==
    /\ \A n \in SourceNames : (n \in guard) ~> (n \notin guard)
    /\ [][\A n \in SourceNames :
            n \in guard /\ n \notin guard'
                => \E c \in AllThreads : frame[c].pc = "release" /\ frame[c].name = n]_vars

\* C12: the guard holds an entry for a source exactly while a call of
\* restart_source for it is between its insert and its remove.
C12_GuardIffRestarting ==
    \A n \in SourceNames : n \in guard <=> Restarting(n) # {}

\* C12 witness: a restart that returned an error has finished and left no
\* entry, while the restart of another event for the source holds one.
C12_Witness ==
    \E n \in SourceNames :
        /\ errors[n] # {} /\ bodyRuns[n] = 2
        /\ n \in guard /\ Cardinality(Restarting(n)) = 1

\* The Err results of restart_inner that leave the source off its slot.
RebuildFailures == {"create", "add", "link"}

\* C13: a restart of a source that starts after a rebuild failure of that
\* source runs like any other: it does not take the process down.
C13_RestartAfterFailureRuns ==
    \A c \in AllThreads :
        InRestart(c) /\ errors[frame[c].name] \cap RebuildFailures # {} => Running

\* The bus watch takes the oldest message off the bus.
Dispatched == bus # <<>> /\ bus' = Tail(bus)

\* restart_source was called for the source and for no other.
RestartInvokedFor(id) ==
    /\ delivered' = [delivered EXCEPT ![id] = @ + 1]
    /\ \/ id \in guard /\ guard' = guard
       \/ id \notin guard /\ guard' = guard \cup {id}

\* C14: for an Error message from an element whose name starts with the
\* prefix, the name without the prefix and without the watchdog suffix is a
\* key of the sources table, and the watch calls restart_source for that
\* source alone.
C14_ErrorIdIsSource ==
    [][Dispatched /\ Head(bus).type = "Error"
         /\ starts_with(Head(bus).src, RTSP_PREFIX)
           => LET id == strip_suffix(strip_prefix(Head(bus).src), WATCHDOG_SUFFIX) IN
              /\ id \in DOMAIN sources
              /\ panic' = panic
              /\ RestartInvokedFor(id)]_vars

\* The watch returned without calling restart_source and without a panic.
NothingInvoked ==
    /\ panic' = panic /\ delivered' = delivered
    /\ guard' = guard /\ frame' = frame /\ idle' = idle /\ bins' = bins

C16_LoggedEventsChangeNothing ==
    [][Dispatched /\ Head(bus).type \in LoggedTypes
           => /\ NothingInvoked
              /\ sources' = sources /\ bodyRuns' = bodyRuns /\ rechecks' = rechecks
              /\ observed' = observed \cup {Head(bus).type}]_vars

\* C16 witness: the watch has handled a StateChanged message and one of
\* another logging arm, and nothing was restarted.
C16_Witness ==
    /\ "StateChanged" \in observed /\ Cardinality(observed) = 2
    /\ bus = <<>> /\ guard = {}
    /\ \A n \in SourceNames : bodyRuns[n] = 0 /\ by_name(n) = {<<n, 1>>}

\* C17: the watch stays installed, and every message put on the bus is
\* dispatched to it in the end, whatever the messages before it led to.
C17_LaterEventsDelivered ==
    []watching /\ [](bus # <<>> => <>(bus = <<>>))

\* The old bin of a restart that is past pipeline.remove.
Removed(c) ==
    /\ frame[c].pc \in {"create", "add", "link", "sync", "release"}
    /\ frame[c].err \notin {"unlink", "remove"}

\* While the callback that restarts a source runs, the old bin is out of
\* the pipeline and its set_state(Null) waits on the idle scheduler; a bin
\* has at most one stop queued, and only a bin that is out of the pipeline
\* and unlinked has one.
C18_StopQueued ==
    /\ \A c \in AllThreads :
          Removed(c) => /\ ~bins[frame[c].bin].inPipeline
                        /\ DestroyQueued(frame[c].bin)
    /\ \A k \in Queued("set_state_null") :
          /\ idle[k].bin \in Handles
          /\ ~bins[idle[k].bin].inPipeline /\ bins[idle[k].bin].peer = NoPeer
          /\ \A j \in Queued("set_state_null") : idle[j].bin = idle[k].bin => j = k
\* The stop runs as an idle callback of its own, after the callback that
\* queued it has returned; whether it succeeds or fails it changes neither
\* the guard nor a bin of the pipeline nor the queue behind it.
C18_StopStep ==
    /\ idle # <<>> /\ Head(idle).kind = "set_state_null" /\ Len(idle') < Len(idle)
        => /\ \A c \in AllThreads : frame[c].pc = "idle" /\ frame'[c].pc = "idle"
           /\ guard' = guard /\ idle' = Tail(idle) /\ bus' = bus
           /\ \A h \in Handles :
                 h # Head(idle).bin => h \in DOMAIN bins' /\ bins'[h] = bins[h]
           /\ Head(idle).bin \notin DOMAIN bins'
    /\ \A h \in Handles \cap DOMAIN bins' :
          bins[h].state # "Null" /\ bins'[h].state = "Null"
              => \A c \in AllThreads : frame[c].pc = "idle"
\* C18: set_state(Null) of the old bin is not run inside the callback that
\* restarts the source: it is queued once with idle_add after the bin left
\* the pipeline and runs later as an idle callback, and its outcome changes
\* neither the guard nor the new bin.
C18_StopIsDeferred == []C18_StopQueued /\ [][C18_StopStep]_vars

\* C18 witness: a restart has succeeded and returned, the queued stop of
\* the old bin has run and freed it, and the new bin plays on the slot.
C18_Witness ==
    \E n \in SourceNames :
        /\ bodyRuns[n] = 1 /\ errors[n] = {} /\ n \notin guard
        /\ Restarting(n) = {} /\ Queued("set_state_null") = {}
        /\ {h \in Handles : h[1] = n} = {<<n, 2>>}
        /\ RebuiltAttached(n) = {<<n, 2>>}

\* The cells make_compositor has placed so far, 0-based.
Placed == {k - 1 : k \in DOMAIN pads}
Column(n) == n % display.horizontal
Row(n) == n \div display.horizontal

\* C19 as stated: cell n lies at its column times floor(w/H) and its row
\* times floor(h/V) and has size floor(w/H) x floor(h/V).
C19_CellAtMultipleOfCellSize ==
    \A n \in Placed :
        /\ pads[n + 1].x = Column(n) * (display.width \div display.horizontal)
        /\ pads[n + 1].y = Row(n) * (display.height \div display.vertical)
        /\ pads[n + 1].width = display.width \div display.horizontal
        /\ pads[n + 1].height = display.height \div display.vertical

\* C19 as amended: cell n lies at floor(column * w / H), floor(row * h / V)
\* and has size floor(w/H) x floor(h/V).  That is column and row times the
\* cell size when H divides w and V divides h; otherwise the cell lies
\* floor(column * (w mod H) / H) further right and
\* floor(row * (h mod V) / V) further down.
C19_CellAtFloorOfProduct ==
    \A n \in Placed :
        /\ pads[n + 1].x = (Column(n) * display.width) \div display.horizontal
        /\ pads[n + 1].y = (Row(n) * display.height) \div display.vertical
        /\ pads[n + 1].width = display.width \div display.horizontal
        /\ pads[n + 1].height = display.height \div display.vertical
        /\ pads[n + 1].x - Column(n) * pads[n + 1].width
              = (Column(n) * (display.width % display.horizontal)) \div display.horizontal
        /\ pads[n + 1].y - Row(n) * pads[n + 1].height
              = (Row(n) * (display.height % display.vertical)) \div display.vertical

\* C19 witness: every cell of a grid of three columns is placed on a
\* display whose width three does not divide, and the last column does not
\* lie at twice the cell width.
C19_Witness ==
    /\ Len(pads) = Cells(display) /\ display.horizontal = 3
    /\ display.width % display.horizontal # 0
    /\ pads[3].x # 2 * pads[3].width

\* Two cells share no point of the display.
Disjoint(a, b) ==
    \/ a.x + a.width <= b.x \/ b.x + b.width <= a.x
    \/ a.y + a.height <= b.y \/ b.y + b.height <= a.y

\* A cell lies inside the display rectangle.
Inside(a) ==
    /\ 0 <= a.x /\ a.x + a.width <= display.width
    /\ 0 <= a.y /\ a.y + a.height <= display.height

\* make_compositor has returned: main() is past the layout.
LayoutDone == watching \/ DOMAIN sources # {}

\* C20: the layout has exactly H * V cells, which pairwise share no point,
\* lie inside the display and are floor(w/H) wide and floor(h/V) high, the
\* size every source is instantiated with; a 2 x 2 grid on 1280 x 800 has
\* cells of 640 x 400 at (0,0), (640,0), (0,400), (640,400).
C20_CellsTileDisplay ==
    /\ Len(pads) <= display.horizontal * display.vertical
    /\ LayoutDone => Len(pads) = display.horizontal * display.vertical
    /\ \A n \in Placed :
          /\ Inside(pads[n + 1])
          /\ pads[n + 1].width = display.width \div display.horizontal
          /\ pads[n + 1].height = display.height \div display.vertical
          /\ \A m \in Placed : m # n => Disjoint(pads[m + 1], pads[n + 1])
    /\ \A name \in DOMAIN sources :
          sources[name].index \in Placed
              => /\ sources[name].width = pads[sources[name].index + 1].width
                 /\ sources[name].height = pads[sources[name].index + 1].height
    /\ [n \in 0..3 |-> CompositorPad(n, 1280, 800, [horizontal |-> 2, vertical |-> 2])]
          = [n \in 0..3 |-> [x |-> (n % 2) * 640, y |-> (n \div 2) * 400,
                             width |-> 640, height |-> 400]]

\* C20 witness: main() has laid out a grid of more than one row and column
\* on a display that neither divides, instantiated every source and set the
\* pipeline playing.
C20_Witness ==
    /\ watching /\ DOMAIN sources = SourceNames
    /\ display.horizontal > 1 /\ display.vertical > 1
    /\ display.width % display.horizontal # 0
    /\ display.height % display.vertical # 0
    /\ Len(pads) = display.horizontal * display.vertical
    /\ pads[1].width > 0 /\ pads[1].height > 0

\* The entry main() made for a configured source.
Configured(n) ==
    [name |-> n, index |-> IndexOf(n),
     width |-> display.width \div display.horizontal,
     height |-> display.height \div display.vertical]

\* C21: once main_loop.run() is reached no step changes the sources table:
\* its keys are the configured source names, every entry has the name, the
\* index and the cell size main() gave it, and every bin, rebuilt or not,
\* has the name and the size of its entry and feeds the slot of its index.
C21_SourcesTableFixed ==
    /\ [](/\ DOMAIN sources = SourceNames
          /\ \A n \in SourceNames : sources[n] = Configured(n)
          /\ \A h \in Handles :
                /\ bins[h].name \in DOMAIN sources
                /\ bins[h].width = sources[bins[h].name].width
                /\ bins[h].height = sources[bins[h].name].height
                /\ bins[h].peer \in {NoPeer, sources[bins[h].name].index})
    /\ [][sources' = sources]_vars

\* C21 witness: one restart has rebuilt a source and put it back on its
\* slot and one has returned an error.
C21_Witness ==
    \E n, m \in SourceNames :
        /\ RebuiltAttached(n) # {} /\ errors[m] # {}
        /\ Restarting(n) = {} /\ Restarting(m) = {}

\* The part of the active graph that belongs to a source: its bins that are
\* children of the pipeline or linked to a slot, with their link and state.
ActiveGraph(n) ==
    [h \in {x \in Handles : bins[x].name = n
                              /\ (bins[x].inPipeline \/ bins[x].peer # NoPeer)}
       |-> bins[h]]

\* C22: a step that changes the active graph of a source (unlink, remove,
\* add, link, state sync) is a step of the call of restart_source that holds
\* the guard entry of that source, and while a source has no guard entry
\* its bins in the pipeline and their links stay as they are.
C22_GraphChangesUnderGuard ==
    [][\A n \in SourceNames :
          ActiveGraph(n)' # ActiveGraph(n)
              => /\ n \in guard
                 /\ \E c \in AllThreads :
                       /\ InRestart(c) /\ frame[c].name = n
                       /\ frame'[c] # frame[c]
                       /\ \A d \in AllThreads \ {c} : frame'[d] = frame[d]]_vars

\* C22 witness: the call that holds the entry of one source has replaced
\* the bin on its slot, while another source, without an entry, still has
\* the bin main() built.
C22_Witness ==
    \E c \in AllThreads : \E m \in SourceNames :
        /\ frame[c].pc = "release" /\ frame[c].err = "none"
        /\ frame[c].name \in guard /\ frame[c].name # m
        /\ Attached(frame[c].name) = {frame[c].element}
        /\ bins[frame[c].element].by = "restart_inner"
        /\ m \notin guard /\ by_name(m) = {<<m, 1>>}

\* Every call of restart_inner for a source, and every deferred call that
\* still waits, goes back to an event delivered for that source.
C23_RunsWithinEvents ==
    \A n \in SourceNames :
        /\ bodyRuns[n] + Cardinality(PendingRechecks(n)) <= delivered[n]
        /\ rechecks[n] + Cardinality(PendingRechecks(n)) <= delivered[n]
\* A deferred call that finds no entry for its source inserts one and goes
\* on to restart_inner; one that finds an entry runs nothing.
C23_DeferredCallStep ==
    \A n \in SourceNames :
        rechecks'[n] # rechecks[n]
            => IF n \in guard
               THEN bodyRuns' = bodyRuns /\ guard' = guard
               ELSE /\ n \in guard'
                    /\ bodyRuns' = [bodyRuns EXCEPT ![n] = @ + 1]
                    /\ \E c \in AllThreads :
                          /\ frame[c].pc = "idle"
                          /\ frame'[c].pc = "by_name" /\ frame'[c].name = n
\* C23: restart_inner runs for a source at most as often as Error and
\* Timeout events were delivered for it, each event leading to at most one
\* run, its own or that of the one deferred call it queued; a deferred call
\* that finds the guard clear restarts the source in full.
C23_BodyRunsBounded == []C23_RunsWithinEvents /\ [][C23_DeferredCallStep]_vars

\* C23 witness: of two events for a source the second was turned away at
\* the guard; its deferred call ran after the first restart had succeeded
\* and returned, found the guard clear and restarts the source once more.
C23_Witness ==
    \E n \in SourceNames :
        /\ delivered[n] = 2 /\ rechecks[n] = 1 /\ bodyRuns[n] = 2
        /\ errors[n] = {} /\ PendingRechecks(n) = {}
        /\ \E c \in AllThreads : frame[c].name = n /\ frame[c].pc = "unlink"

====
